---------------------------- MODULE Spec2Model ----------------------------
(***************************************************************************)
(* A model of the Fabric-Healthcare chaincode: the manufacturer, hospital  *)
(* and patient contracts over the process-wide entity maps and the ledger. *)
(*                                                                         *)
(* A Go string is a sequence of tokens (a token stands for a run of        *)
(* characters); the token "-" is the one character the trace-code codec    *)
(* treats as its delimiter.  Entity pointers are object ids in objs, so    *)
(* that two operations holding the same *Manufacturer or *Hospital share   *)
(* its map fields and its mutex.  Every handler is cut at the points where *)
(* another goroutine can interleave: the lookup in the global map, the     *)
(* mu.Lock(), the mutation with its json.Marshal, and the PutState with    *)
(* the deferred mu.Unlock().                                               *)
(***************************************************************************)
EXTENDS Integers, Sequences, FiniteSets, TLC

VARIABLES
    manufacturers,  \* var manufacturers = map[string]*Manufacturer{}
    hospitals,      \* var hospitals = map[string]*Hospital{}
    patients,       \* var patients = map[string]*Patient{}
    objs,           \* the heap: object id -> Manufacturer or Hospital struct
    ledger,         \* the world state: key -> document last Put
    procs,          \* each goroutine's handler, position, locals and last result
    nOps,           \* number of handler invocations each goroutine has started
    quota,          \* number of handler invocations each goroutine may start
    putFails,       \* number of PutState calls that returned an error so far
    hist            \* history: codes generated, units inserted, purchases done

vars == <<manufacturers, hospitals, patients, objs, ledger, procs, nOps, quota, putFails, hist>>

-----------------------------------------------------------------------------
(* Bounds of the model *)

MaxOps == 4      \* handlers goroutine 1 invokes, one after the other
MaxConc == 1     \* handlers goroutine 2 invokes, concurrently with them
MaxOpsAll == 3   \* goroutine 1's handlers when every handler is in play
MaxPutFail == 1
MaxNonce == 1
MaxReportId == 2 \* the report ids a reader asks for
MaxDraw == 2     \* the values rand.Int() draws from, when the codec is called directly
MaxCodecOps == 2 \* goroutine 1's calls of the codec

Procs == {1, 2}

ManufacturerNames == {<<"m1">>}
HospitalNames == {<<"h1">>}
PatientNames == {<<"p1">>}
DrugNames == {<<"d1">>, <<"d2">>}
Contacts == {<<"c1">>}
Prices == {999}
\* time.Now().Format(time.RFC3339), e.g. 2024-01-02T15:04:05Z
Times == {<<"2024", "-", "01", "-", "02T15:04:05Z">>}
Nonces == 1..MaxNonce
Symptoms == {<<"s1">>}
ReportIds == 1..MaxReportId

\* the arguments of direct calls of the codec: names and times with and without
\* the character "-", the empty name, and texts that are and are not prices
CodecNames == {<<"d1">>, <<>>, <<"d", "-", "1">>}
CodecManufacturers == {<<"m1">>, <<"m", "-", "1">>}
CodecPrices == {0, 999, -500}
CodecTimes == Times \cup {<<"t1">>}
Draws == 1..MaxDraw

-----------------------------------------------------------------------------
(* Strings and the trace-code codec *)

Dash == "-"

Pad2(n) == IF n < 10 THEN "0" \o ToString(n) ELSE ToString(n)

\* fmt.Sprintf("%.2f", price), the price held in hundredths
FormatPrice(price) ==
    IF price < 0
    THEN <<Dash, ToString((-price) \div 100), ".", Pad2((-price) % 100)>>
    ELSE <<ToString(price \div 100), ".", Pad2(price % 100)>>

\* fmt.Sprintf("%d", rand.Int())
FormatInt(n) == <<ToString(n)>>

GenerateTraceCode(drugName, manufacturer, price, productionTime, nonce) ==
    drugName \o <<Dash>> \o manufacturer \o <<Dash>> \o price \o <<Dash>>
        \o productionTime \o <<Dash>> \o FormatInt(nonce)

\* a split that finds no separator
SplitNone(s, sep) == <<s>>

RECURSIVE SplitFrom(_, _, _, _)
SplitFrom(s, sep, i, cur) ==
    IF i > Len(s) THEN <<cur>>
    ELSE IF s[i] = sep THEN <<cur>> \o SplitFrom(s, sep, i + 1, <<>>)
    ELSE SplitFrom(s, sep, i + 1, Append(cur, s[i]))

\* strings.Split(s, sep)
Split(s, sep) == SplitFrom(s, sep, 1, <<>>)

\* the prices of the model
Floats == Prices \cup CodecPrices

\* strconv.ParseFloat succeeds on the texts FormatPrice writes
IsFloat(s) == \E price \in Floats : s = FormatPrice(price)

ParseFloat(s) == CHOOSE price \in Floats : s = FormatPrice(price)

DecodeTraceCode(traceCode) ==
    LET parts == Split(traceCode, Dash) IN
    IF Len(parts) < 5
    THEN [ok |-> FALSE, err |-> "invalid trace code format"]
    ELSE IF ~IsFloat(parts[3])
    THEN [ok |-> FALSE, err |-> "invalid price format"]
    ELSE [ok |-> TRUE, err |-> "", drugName |-> parts[1], manufacturer |-> parts[2],
          price |-> ParseFloat(parts[3]), productionTime |-> parts[4]]

-----------------------------------------------------------------------------
(* Data *)

NoDoc == [kind |-> "none"]
NoRes == [ok |-> FALSE, err |-> "none", val |-> <<>>]
NoArgs == [none |-> TRUE]
\* what an operation saw of the history and of the other goroutine when it ran
NoObs == [race |-> FALSE, u0 |-> 0, conc |-> FALSE, ins |-> 0, sold |-> FALSE,
          dirty |-> FALSE, had |-> FALSE, stock |-> FALSE, bought |-> FALSE, nth |-> 0]
NoDrug == [none |-> TRUE]

\* a goroutine: the handler it runs (op, args), where it stands (st), its locals
\* (ref: the entity pointer, key and drug: the range variables, doc: the JSON,
\* pk: the ledger key, ret: the value to return) and the last result (res)
IdleProc == [op |-> "none", st |-> "idle", args |-> NoArgs, ref |-> 0, key |-> <<>>,
             drug |-> NoDrug, doc |-> NoDoc, pk |-> <<>>, ret |-> <<>>, res |-> NoRes,
             obs |-> NoObs]

Ok(v) == [ok |-> TRUE, err |-> "", val |-> v]
Err(e) == [ok |-> FALSE, err |-> e, val |-> <<>>]

\* json.Marshal of a *Manufacturer, *Hospital or *Patient: every exported field,
\* not mu (Channels, a map no handler writes, is left out of the model)
Marshal(obj) ==
    CASE obj.kind = "M" ->
            [kind |-> "M", Name |-> obj.Name, Contact |-> obj.Contact, Inventory |-> obj.Inventory]
      [] obj.kind = "H" ->
            [kind |-> "H", Name |-> obj.Name, Contact |-> obj.Contact, Reports |-> obj.Reports,
             Inventory |-> obj.Inventory, Patients |-> obj.Patients]
      [] OTHER -> obj

\* a delete that deletes nothing
MapKeep(f, k) == f

\* a map with one entry set, and with one entry deleted
MapSet(f, k, v) == [x \in (DOMAIN f) \cup {k} |-> IF x = k THEN v ELSE f[x]]
MapDel(f, k) == [x \in (DOMAIN f) \ {k} |-> f[x]]
EmptyMap == [x \in {} |-> 0]

NewId == Cardinality(DOMAIN objs) + 1

Start ==
    /\ manufacturers = EmptyMap
    /\ hospitals = EmptyMap
    /\ patients = EmptyMap
    /\ objs = EmptyMap
    /\ ledger = EmptyMap
    /\ procs = [p \in Procs |-> IdleProc]
    /\ nOps = [p \in Procs |-> 0]
    /\ putFails = 0
    /\ hist = [produced |-> {}, ins |-> [x \in ManufacturerNames \X DrugNames |-> 0], sold |-> {},
               bought |-> {}, created |-> [h \in HospitalNames |-> 0]]

Quota(first, second) == [p \in Procs |-> IF p = 1 THEN first ELSE second]

Init == Start /\ quota = Quota(MaxOps, MaxConc)

-----------------------------------------------------------------------------
(* Goroutines *)

Other(p) == CHOOSE q \in Procs : q # p

Active(pr) == pr.st \notin {"idle", "done"}

\* a handler is invoked by a goroutine that runs no handler
CanCall(p) == ~Active(procs[p]) /\ nOps[p] < quota[p]

Called(p) == nOps' = [nOps EXCEPT ![p] = @ + 1]

Begin(op, args, st, ref) ==
    [IdleProc EXCEPT !.op = op, !.args = args, !.st = st, !.ref = ref]

\* the handler returns: its locals die, its result stays with the caller
Return(pr, res) ==
    [pr EXCEPT !.st = "done", !.res = res, !.ref = 0, !.key = <<>>, !.drug = NoDrug,
               !.doc = NoDoc, !.pk = <<>>, !.ret = <<>>]

SetProc(p, pr) == procs' = [procs EXCEPT ![p] = pr]

\* the aggregate a handler adds an entry to (a drug, a roster entry, a report)
Target(pr) ==
    CASE pr.op \in {"ProduceDrug", "AddDrugToMnfcInventory"} -> <<"M", pr.args.m>>
      [] pr.op \in {"CreatePatientRecord", "ModifyReport", "ConductExamination"} -> <<"H", pr.args.h>>
      [] OTHER -> <<>>

\* x, exists := entities[name]; if !exists { return err }
\* (obs.conc: the handler runs while the other goroutine is inside a handler
\* that adds to the same aggregate)
Lookup(p, op, args, entities, name, err) ==
    /\ CanCall(p)
    /\ Called(p)
    /\ LET q == Other(p)
           mine == IF name \notin DOMAIN entities
                   THEN Return(Begin(op, args, "call", 0), Err(err))
                   ELSE Begin(op, args, "lock", entities[name])
           conc == /\ Active(mine) /\ Target(mine) # <<>>
                   /\ Active(procs[q]) /\ Target(procs[q]) = Target(mine) IN
       procs' = [procs EXCEPT ![p] = [mine EXCEPT !.obs.conc = conc],
                              ![q] = IF conc THEN [@ EXCEPT !.obs.conc = TRUE] ELSE @]
    /\ UNCHANGED <<manufacturers, hospitals, patients, objs, ledger, quota, putFails, hist>>

\* a mutex that excludes nobody
NoMutex(obj) == TRUE

\* sync.Mutex: Lock() returns once no goroutine holds the mutex
CanLock(obj) == obj.mu = 0

\* a return that leaves the mutex held
StillLocked(os, id) == os

\* defer x.mu.Unlock(): the mutex is released in the step that returns
Unlocked(os, id) == [os EXCEPT ![id].mu = 0]

\* hospital.mu.Lock() / manufacturer.mu.Lock() of the handler that looked the
\* entity up; the deferred Unlock runs in the step that returns
Lock(p) ==
    /\ procs[p].st = "lock"
    /\ CanLock(objs[procs[p].ref])
    /\ objs' = [objs EXCEPT ![procs[p].ref].mu = p]
    /\ SetProc(p, [procs[p] EXCEPT !.st = "body"])
    /\ UNCHANGED <<manufacturers, hospitals, patients, ledger, nOps, quota, putFails, hist>>

\* the handler has changed the entity and marshalled it: next it Puts doc under pk
\* and returns ret
ToPut(pr, os, ret) ==
    [pr EXCEPT !.st = "put", !.doc = Marshal(os[pr.ref]), !.pk = os[pr.ref].Name, !.ret = ret]

\* the outcomes of one PutState call: it may fail while the fault budget lasts
PutOutcomes == IF putFails < MaxPutFail THEN {TRUE, FALSE} ELSE {TRUE}

PutState(key, doc, ok) ==
    /\ ledger' = IF ok THEN MapSet(ledger, key, doc) ELSE ledger
    /\ putFails' = IF ok THEN putFails ELSE putFails + 1

\* ProduceDrug and ModifyReport end in "return value, PutState(...)": the value is
\* returned beside the error
KeepsValue == {"ProduceDrug", "MainProduceDrug", "ModifyReport"}

\* the handlers whose first call is followed by a second one of the same caller
IsPurchase(pr) ==
    \/ pr.op = "RemoveDrugFromMnfcInventory"
    \/ pr.op = "AddDrugToHospitalInventory"

\* the handlers that create a report
ReportCreations == {"ModifyReport", "ConductExamination", "MainConductExamination"}

\* a report creation that returns success: the how-manieth of its hospital it is
Nth(pr) ==
    IF pr.op \in ReportCreations
    THEN [pr EXCEPT !.obs.nth = hist.created[pr.args.h] + 1]
    ELSE pr

(***************************************************************************)
(* The tail every handler shares: ctx.GetStub().PutState(name, json), the  *)
(* return of its result or of the Put's error, and the deferred Unlock.    *)
(* ConductExamination Puts twice ("put1", then "put"); a removal that is   *)
(* the first call of a purchase leaves its caller at "mid", between the    *)
(* two calls.                                                              *)
(***************************************************************************)
PutReturn(p) ==
    /\ procs[p].st \in {"put", "put1"}
    /\ \E ok \in PutOutcomes :
        LET pr == procs[p]
            failed == [ok |-> FALSE, err |-> "put failed",
                       val |-> IF pr.op \in KeepsValue THEN pr.ret ELSE <<>>]
            goesOn == ok /\ pr.st = "put1" IN
        /\ PutState(pr.pk, pr.doc, ok)
        /\ SetProc(p, CASE ~ok -> Return(pr, failed)
                        [] goesOn -> [pr EXCEPT !.st = "body2", !.doc = NoDoc]
                        [] pr.op = "RemoveDrugFromMnfcInventory" ->
                            [pr EXCEPT !.st = "mid", !.res = Ok(pr.ret), !.ref = 0, !.key = <<>>,
                                       !.doc = NoDoc, !.pk = <<>>, !.ret = <<>>]
                        [] OTHER -> Return(Nth(pr), Ok(pr.ret)))
        /\ objs' = IF pr.ref # 0 /\ ~goesOn THEN Unlocked(objs, pr.ref) ELSE objs
        /\ hist' = CASE ok /\ pr.op = "AddDrugToHospitalInventory" ->
                            [hist EXCEPT !.sold = @ \cup {<<pr.args.m, pr.args.d>>}]
                     [] ok /\ pr.op \in {"BuyDrug", "MainBuyDrug"} ->
                            [hist EXCEPT !.bought = @ \cup {<<pr.args.h, pr.args.d>>}]
                     [] ok /\ pr.st = "put" /\ pr.op \in ReportCreations ->
                            [hist EXCEPT !.created[pr.args.h] = @ + 1]
                     [] OTHER -> hist
    /\ UNCHANGED <<manufacturers, hospitals, patients, nOps, quota>>

\* a history counter: saturates at 2, "more than one"
Counted(n) == IF n < 2 THEN n + 1 ELSE n

\* the units of one name in an inventory
Named(inv, drugName) == {k \in DOMAIN inv : inv[k].Name = drugName}

\* the inventory holds a unit of that name marked in stock
InStockUnit(inv, drugName) == \E k \in Named(inv, drugName) : inv[k].InStock

-----------------------------------------------------------------------------
(* ManufacturerContract, package chaincode *)

NewManufacturer(name, contact) ==
    [kind |-> "M", Name |-> name, Contact |-> contact, Inventory |-> EmptyMap, mu |-> 0]

CreateManufacturer(p) ==
    \/ \E name \in ManufacturerNames, contact \in Contacts :
        /\ CanCall(p)
        /\ Called(p)
        /\ LET a == [name |-> name, contact |-> contact] IN
           SetProc(p, IF name \in DOMAIN manufacturers
                      THEN Return(Begin("CreateManufacturer", a, "call", 0),
                                  Err("manufacturer already exists"))
                      ELSE Begin("CreateManufacturer", a, "insert", 0))
        /\ UNCHANGED <<manufacturers, hospitals, patients, objs, ledger, quota, putFails, hist>>
    \/ /\ procs[p].op = "CreateManufacturer" /\ procs[p].st = "insert"
       /\ LET a == procs[p].args
              obj == NewManufacturer(a.name, a.contact) IN
          /\ objs' = MapSet(objs, NewId, obj)
          /\ manufacturers' = MapSet(manufacturers, a.name, NewId)
          /\ SetProc(p, [procs[p] EXCEPT !.st = "put", !.doc = Marshal(obj), !.pk = a.name])
       /\ UNCHANGED <<hospitals, patients, ledger, nOps, quota, putFails, hist>>

ProduceDrug(p) ==
    \/ \E m \in ManufacturerNames, d \in DrugNames, price \in Prices :
        Lookup(p, "ProduceDrug", [m |-> m, d |-> d, price |-> price], manufacturers, m,
               "manufacturer not found")
    \/ /\ procs[p].op = "ProduceDrug" /\ procs[p].st = "body"
       /\ LET a == procs[p].args
              id == procs[p].ref IN
          IF a.d \in DOMAIN objs[id].Inventory
          THEN /\ objs' = Unlocked(objs, id)
               /\ SetProc(p, Return(procs[p], Err("drug already exists")))
               /\ UNCHANGED hist
          ELSE \E productionTime \in Times, nonce \in Nonces :
               LET traceCode == GenerateTraceCode(a.d, a.m, FormatPrice(a.price), productionTime, nonce)
                   drug == [Name |-> a.d, TraceCode |-> traceCode, Manufacturer |-> a.m,
                            Price |-> a.price, ProductionTime |-> productionTime, InStock |-> TRUE]
                   os == [objs EXCEPT ![id].Inventory = MapSet(@, a.d, drug)] IN
               /\ objs' = os
               /\ SetProc(p, ToPut(procs[p], os, traceCode))
               /\ hist' = [hist EXCEPT !.produced = @ \cup {traceCode},
                                        !.ins[<<a.m, a.d>>] = Counted(@)]
       /\ UNCHANGED <<manufacturers, hospitals, patients, ledger, nOps, quota, putFails>>

AddDrugToMnfcInventory(p) ==
    \/ \E m \in ManufacturerNames, d \in DrugNames, price \in Prices, t \in Times, nonce \in Nonces :
        Lookup(p, "AddDrugToMnfcInventory",
               [m |-> m, d |-> d, price |-> price,
                traceCode |-> GenerateTraceCode(d, m, FormatPrice(price), t, nonce)],
               manufacturers, m, "manufacturer not found")
    \/ /\ procs[p].op = "AddDrugToMnfcInventory" /\ procs[p].st = "body"
       /\ \E productionTime \in Times :
          LET a == procs[p].args
              id == procs[p].ref
              \* the struct literal sets no InStock: it keeps Go's zero value
              drug == [Name |-> a.d, TraceCode |-> a.traceCode, Manufacturer |-> a.m,
                       Price |-> a.price, ProductionTime |-> productionTime, InStock |-> FALSE]
              os == [objs EXCEPT ![id].Inventory = MapSet(@, a.traceCode, drug)] IN
          /\ objs' = os
          /\ SetProc(p, ToPut(procs[p], os, <<>>))
          /\ hist' = [hist EXCEPT !.produced = @ \cup {a.traceCode},
                                  !.ins[<<a.m, a.d>>] = Counted(@)]
       /\ UNCHANGED <<manufacturers, hospitals, patients, ledger, nOps, quota, putFails>>

\* the purchase has taken its unit out of the manufacturer's inventory
HasRemoved(pr) ==
    \/ pr.op = "RemoveDrugFromMnfcInventory" /\ pr.st \in {"put", "mid"}
    \/ pr.op = "AddDrugToHospitalInventory"

\* the other goroutine is in the middle of a purchase of the same drug name
\* from the same manufacturer
Racing(p, m, d) ==
    /\ Active(procs[Other(p)])
    /\ IsPurchase(procs[Other(p)])
    /\ procs[Other(p)].args.m = m
    /\ procs[Other(p)].args.d = d

\* the units named d that m holds or that the racing purchase has just taken
UnitsAtStake(p, m, d) ==
    (IF m \in DOMAIN manufacturers
     THEN Cardinality(Named(objs[manufacturers[m]].Inventory, d)) ELSE 0)
    + (IF HasRemoved(procs[Other(p)]) THEN 1 ELSE 0)

(***************************************************************************)
(* A hospital purchase is the caller's sequence RemoveDrugFromMnfcInventory *)
(* (manufacturer, drug) and then AddDrugToHospitalInventory(hospital, drug, *)
(* the code the removal returned); args.h of the removal names the buyer.   *)
(***************************************************************************)
RemoveDrugFromMnfcInventory(p) ==
    \/ \E m \in ManufacturerNames, d \in DrugNames, h \in HospitalNames :
        /\ CanCall(p)
        /\ Called(p)
        /\ LET a == [m |-> m, d |-> d, h |-> h]
               q == Other(p)
               o == IF Racing(p, m, d)
                    THEN [NoObs EXCEPT !.race = TRUE, !.u0 = UnitsAtStake(p, m, d)]
                    ELSE NoObs
               mine == IF m \notin DOMAIN manufacturers
                       THEN Return(Begin("RemoveDrugFromMnfcInventory", a, "call", 0),
                                   Err("manufacturer not found"))
                       ELSE Begin("RemoveDrugFromMnfcInventory", a, "lock", manufacturers[m]) IN
           procs' = [procs EXCEPT ![p] = [mine EXCEPT !.obs = o],
                                  ![q] = IF o.race
                                         THEN [@ EXCEPT !.obs.race = TRUE, !.obs.u0 = o.u0]
                                         ELSE @]
        /\ UNCHANGED <<manufacturers, hospitals, patients, objs, ledger, quota, putFails, hist>>
    \/ /\ procs[p].op = "RemoveDrugFromMnfcInventory" /\ procs[p].st = "body"
       /\ LET a == procs[p].args
              id == procs[p].ref
              inv == objs[id].Inventory
              seen == [procs[p] EXCEPT !.obs.ins = hist.ins[<<a.m, a.d>>],
                                       !.obs.sold = (<<a.m, a.d>> \in hist.sold)] IN
          IF Named(inv, a.d) = {}
          THEN /\ objs' = Unlocked(objs, id)
               /\ SetProc(p, Return(seen, Err("drug not available")))
          ELSE \* for traceCode, drug := range manufacturer.Inventory: any order
               /\ \E traceCode \in Named(inv, a.d) :
                   SetProc(p, [seen EXCEPT !.st = "del", !.key = traceCode, !.drug = inv[traceCode]])
               /\ UNCHANGED objs
       /\ UNCHANGED <<manufacturers, hospitals, patients, ledger, nOps, quota, putFails, hist>>
    \/ /\ procs[p].op = "RemoveDrugFromMnfcInventory" /\ procs[p].st = "del"
       /\ LET os == [objs EXCEPT ![procs[p].ref].Inventory = MapDel(@, procs[p].key)] IN
          /\ objs' = os
          /\ SetProc(p, ToPut(procs[p], os, procs[p].key))
       /\ UNCHANGED <<manufacturers, hospitals, patients, ledger, nOps, quota, putFails, hist>>

-----------------------------------------------------------------------------
(* HospitalContract, package chaincode *)

NewHospital(name, contact) ==
    [kind |-> "H", Name |-> name, Contact |-> contact, Reports |-> EmptyMap,
     Inventory |-> EmptyMap, Patients |-> EmptyMap, mu |-> 0]

CreateHospital(p) ==
    \/ \E name \in HospitalNames, contact \in Contacts :
        /\ CanCall(p)
        /\ Called(p)
        /\ LET a == [name |-> name, contact |-> contact] IN
           SetProc(p, IF name \in DOMAIN hospitals
                      THEN Return(Begin("CreateHospital", a, "call", 0), Err("hospital already exists"))
                      ELSE Begin("CreateHospital", a, "insert", 0))
        /\ UNCHANGED <<manufacturers, hospitals, patients, objs, ledger, quota, putFails, hist>>
    \/ /\ procs[p].op = "CreateHospital" /\ procs[p].st = "insert"
       /\ LET a == procs[p].args
              obj == NewHospital(a.name, a.contact) IN
          /\ objs' = MapSet(objs, NewId, obj)
          /\ hospitals' = MapSet(hospitals, a.name, NewId)
          /\ SetProc(p, [procs[p] EXCEPT !.st = "put", !.doc = Marshal(obj), !.pk = a.name])
       /\ UNCHANGED <<manufacturers, patients, ledger, nOps, quota, putFails, hist>>

AddDrugToHospitalInventory(p) ==
    \/ \* the second call of a purchase, with the code the removal returned
       /\ procs[p].op = "RemoveDrugFromMnfcInventory" /\ procs[p].st = "mid"
       /\ LET b == procs[p].args
              a == [h |-> b.h, d |-> b.d, traceCode |-> procs[p].res.val, m |-> b.m,
                    unit |-> procs[p].drug]
              next == [Begin("AddDrugToHospitalInventory", a, "lock", 0) EXCEPT !.obs = procs[p].obs] IN
          SetProc(p, IF b.h \notin DOMAIN hospitals
                     THEN Return(next, Err("hospital not found"))
                     ELSE [next EXCEPT !.ref = hospitals[b.h]])
       /\ UNCHANGED <<manufacturers, hospitals, patients, objs, ledger, nOps, quota, putFails, hist>>
    \/ /\ procs[p].op = "AddDrugToHospitalInventory" /\ procs[p].st = "body"
       /\ LET a == procs[p].args
              id == procs[p].ref
              \* HospitalDrug{Name, TraceCode, HospitalName}: no InStock is set
              drug == [Name |-> a.d, TraceCode |-> a.traceCode, HospitalName |-> a.h,
                       InStock |-> FALSE]
              os == [objs EXCEPT ![id].Inventory = MapSet(@, a.traceCode, drug)] IN
          /\ objs' = os
          /\ SetProc(p, ToPut(procs[p], os, <<>>))
       /\ UNCHANGED <<manufacturers, hospitals, patients, ledger, nOps, quota, putFails, hist>>

RemoveDrugFromHospitalInventory(p) ==
    \/ \E h \in HospitalNames, d \in DrugNames :
        Lookup(p, "RemoveDrugFromHospitalInventory", [h |-> h, d |-> d], hospitals, h,
               "hospital not found")
    \/ /\ procs[p].op = "RemoveDrugFromHospitalInventory" /\ procs[p].st = "body"
       /\ LET a == procs[p].args
              id == procs[p].ref
              inv == objs[id].Inventory IN
          IF Named(inv, a.d) = {}
          THEN /\ objs' = Unlocked(objs, id)
               /\ SetProc(p, Return(procs[p], Err("drug not available")))
          ELSE /\ \E traceCode \in Named(inv, a.d) :
                   SetProc(p, [procs[p] EXCEPT !.st = "del", !.key = traceCode, !.drug = inv[traceCode]])
               /\ UNCHANGED objs
       /\ UNCHANGED <<manufacturers, hospitals, patients, ledger, nOps, quota, putFails, hist>>
    \/ /\ procs[p].op = "RemoveDrugFromHospitalInventory" /\ procs[p].st = "del"
       /\ LET os == [objs EXCEPT ![procs[p].ref].Inventory = MapDel(@, procs[p].key)] IN
          /\ objs' = os
          /\ SetProc(p, ToPut(procs[p], os, procs[p].key))
       /\ UNCHANGED <<manufacturers, hospitals, patients, ledger, nOps, quota, putFails, hist>>

-----------------------------------------------------------------------------
(* PatientContract, package chaincode *)

BuyDrug(p) ==
    \/ \E patientName \in PatientNames, h \in HospitalNames, d \in DrugNames :
        Lookup(p, "BuyDrug", [patientName |-> patientName, h |-> h, d |-> d], hospitals, h,
               "hospital not found")
    \/ /\ procs[p].op = "BuyDrug" /\ procs[p].st = "body"
       /\ LET a == procs[p].args
              id == procs[p].ref
              inv == objs[id].Inventory
              seen == [procs[p] EXCEPT !.obs.had = (Named(inv, a.d) # {}),
                                       !.obs.stock = InStockUnit(inv, a.d)] IN
          IF a.d \in DOMAIN inv /\ inv[a.d].InStock
          THEN \* drug is a copy of the map's value: drug.InStock = false changes
               \* the copy, and the map still holds the unit as it was
               /\ SetProc(p, [ToPut(seen, objs, inv[a.d].TraceCode)
                                EXCEPT !.drug = [inv[a.d] EXCEPT !.InStock = FALSE]])
               /\ UNCHANGED objs
          ELSE /\ objs' = Unlocked(objs, id)
               /\ SetProc(p, Return(seen, Err("drug not available")))
       /\ UNCHANGED <<manufacturers, hospitals, patients, ledger, nOps, quota, putFails, hist>>

-----------------------------------------------------------------------------
(* Unsynchronized accesses *)

\* the other goroutine holds the entity's lock and stands before a write of
\* one of its map fields: a read without the lock races with that write
Writes(pr, id, field) ==
    /\ pr.ref = id
    /\ \/ field = "Reports" /\ pr.op \in ReportCreations /\ pr.st = "new"
       \/ field = "Patients" /\ pr.op \in {"CreatePatientRecord", "ConductExamination"} /\ pr.st = "body"
       \/ field = "Inventory" /\ pr.op = "AddDrugToHospitalInventory" /\ pr.st = "body"
       \/ field = "Inventory" /\ pr.op = "RemoveDrugFromHospitalInventory" /\ pr.st = "del"

\* the other goroutine has changed the entity in the cache and has not yet
\* Put the document
Unpersisted(pr, id) == pr.ref = id /\ pr.st \in {"put", "put1"}

\* the Go runtime's throw on an unsynchronized map access ("concurrent map
\* read and map write", "concurrent map writes"): the process exits
Crashed == [q \in Procs |-> [procs[q] EXCEPT !.st = "dead"]]

\* a handler that only reads: it returns in the step that calls it
ReadSeeing(p, op, args, res, obs) ==
    /\ CanCall(p)
    /\ Called(p)
    /\ SetProc(p, [Return(Begin(op, args, "call", 0), res) EXCEPT !.obs = obs])
    /\ UNCHANGED <<manufacturers, hospitals, patients, objs, ledger, quota, putFails, hist>>

Read(p, op, args, res, dirty) == ReadSeeing(p, op, args, res, [NoObs EXCEPT !.dirty = dirty])

Throw(p) ==
    /\ CanCall(p)
    /\ Called(p)
    /\ procs' = Crashed
    /\ UNCHANGED <<manufacturers, hospitals, patients, objs, ledger, quota, putFails, hist>>

\* the global map a Create handler is about to insert into, with no lock
Inserts(pr) ==
    IF pr.st # "insert" THEN "none"
    ELSE CASE pr.op \in {"CreateManufacturer", "MainCreateManufacturer"} -> "manufacturers"
           [] pr.op = "CreateHospital" -> "hospitals"
           [] OTHER -> "patients"

\* the goroutine stands before a read of that global map: every handler begins
\* with the lookup of its entity, a purchase's second call looks its hospital
\* up, and ConductExamination looks the patient up under the hospital's lock
LooksUp(q, map) ==
    \/ CanCall(q)
    \/ map = "hospitals" /\ procs[q].st = "mid"
    \/ map = "patients" /\ procs[q].op = "ConductExamination" /\ procs[q].st = "body"

(***************************************************************************)
(* manufacturers, hospitals and patients are plain maps that no lock       *)
(* guards: an insert by a Create handler that overlaps a lookup or another *)
(* insert of the same map is a data race, and one of its outcomes is the   *)
(* runtime's throw.  (The other outcomes are the interleavings of the      *)
(* handlers' steps.)                                                       *)
(***************************************************************************)
Fatal(p) ==
    /\ Inserts(procs[p]) # "none"
    /\ \/ LooksUp(Other(p), Inserts(procs[p]))
       \/ Inserts(procs[Other(p)]) = Inserts(procs[p])
    /\ procs' = Crashed
    /\ UNCHANGED <<manufacturers, hospitals, patients, objs, ledger, nOps, quota, putFails, hist>>

-----------------------------------------------------------------------------
(* HospitalContract: roster and reports *)

\* an enrollment that marks the entry of a patient enrolled before
EnrollMarking(roster, patientName) ==
    MapSet(roster, patientName,
           IF patientName \in DOMAIN roster THEN <<patientName, patientName>> ELSE patientName)

\* hospital.Patients[patientName] = patientName
Enroll(roster, patientName) == MapSet(roster, patientName, patientName)

\* the roster holds the entry CreatePatientRecord stores for that patient
Enrolled(roster, patientName) ==
    patientName \in DOMAIN roster /\ roster[patientName] = patientName

CreatePatientRecord(p) ==
    \/ \E h \in HospitalNames, patientName \in PatientNames :
        Lookup(p, "CreatePatientRecord", [h |-> h, patientName |-> patientName], hospitals, h,
               "hospital not found")
    \/ /\ procs[p].op = "CreatePatientRecord" /\ procs[p].st = "body"
       /\ LET a == procs[p].args
              os == [objs EXCEPT ![procs[p].ref].Patients = Enroll(@, a.patientName)] IN
          /\ objs' = os
          /\ SetProc(p, [ToPut(procs[p], os, <<>>)
                           EXCEPT !.obs.had = Enrolled(objs[procs[p].ref].Patients, a.patientName)])
       /\ UNCHANGED <<manufacturers, hospitals, patients, ledger, nOps, quota, putFails, hist>>

\* len(hospital.Reports) + 1
Len1(reports) == Cardinality(DOMAIN reports) + 1

\* a roster test that every name passes
AnyPatient(roster, patientName) == TRUE

\* _, exists := hospital.Patients[patientName]
InRoster(roster, patientName) == patientName \in DOMAIN roster

ModifyReport(p) ==
    \/ \E h \in HospitalNames, patientName \in PatientNames, symptoms \in Symptoms :
        Lookup(p, "ModifyReport",
               [h |-> h, patientName |-> patientName, symptoms |-> symptoms, neededDrugs |-> <<>>],
               hospitals, h, "hospital not found")
    \/ /\ procs[p].op = "ModifyReport" /\ procs[p].st = "body"
       /\ LET a == procs[p].args
              id == procs[p].ref IN
          IF ~InRoster(objs[id].Patients, a.patientName)
          THEN /\ objs' = Unlocked(objs, id)
               /\ SetProc(p, Return(procs[p], Err("patient not found in hospital's list")))
          ELSE \* reportID := len(hospital.Reports) + 1
               /\ SetProc(p, [procs[p] EXCEPT !.st = "new", !.ret = Len1(objs[id].Reports)])
               /\ UNCHANGED objs
       /\ UNCHANGED <<manufacturers, hospitals, patients, ledger, nOps, quota, putFails, hist>>
    \/ /\ procs[p].op = "ModifyReport" /\ procs[p].st = "new"
       /\ LET a == procs[p].args
              id == procs[p].ref
              reportID == procs[p].ret
              report == [ID |-> reportID, PatientName |-> a.patientName, Symptoms |-> a.symptoms,
                         NeededDrugs |-> a.neededDrugs]
              os == [objs EXCEPT ![id].Reports = MapSet(@, reportID, report)] IN
          /\ objs' = os
          /\ SetProc(p, ToPut(procs[p], os, reportID))
       /\ UNCHANGED <<manufacturers, hospitals, patients, ledger, nOps, quota, putFails, hist>>

\* GetPatients(hospitalName) of the hospital contract: the roster's keys, in
\* the map's iteration order (the list is modelled by the set of its elements)
HospitalGetPatients(p) ==
    \/ \E h \in HospitalNames :
        Read(p, "HospitalGetPatients", [h |-> h],
             IF h \in DOMAIN hospitals
             THEN Ok(DOMAIN objs[hospitals[h]].Patients) ELSE Err("hospital not found"),
             h \in DOMAIN hospitals /\ Unpersisted(procs[Other(p)], hospitals[h]))
    \/ \E h \in HospitalNames :
        /\ h \in DOMAIN hospitals
        /\ Writes(procs[Other(p)], hospitals[h], "Patients")
        /\ Throw(p)

\* the registered hospital h stores, under that ID, a report of that patient
Stored(h, reportID, patientName) ==
    /\ h \in DOMAIN hospitals
    /\ reportID \in DOMAIN objs[hospitals[h]].Reports
    /\ objs[hospitals[h]].Reports[reportID].PatientName = patientName

\* what a ViewReport observes of the state it reads
Viewing(p, h, reportID, patientName) ==
    [NoObs EXCEPT !.dirty = h \in DOMAIN hospitals /\ Unpersisted(procs[Other(p)], hospitals[h]),
                  !.had = Stored(h, reportID, patientName)]

ViewReport(p) ==
    \/ \E patientName \in PatientNames, h \in HospitalNames, reportID \in ReportIds :
        ReadSeeing(p, "ViewReport", [patientName |-> patientName, h |-> h, reportID |-> reportID],
             IF h \notin DOMAIN hospitals THEN Err("hospital not found")
             ELSE LET reports == objs[hospitals[h]].Reports IN
                  IF reportID \in DOMAIN reports /\ reports[reportID].PatientName = patientName
                  THEN Ok(reports[reportID]) ELSE Err("report not found"),
             Viewing(p, h, reportID, patientName))
    \/ \E h \in HospitalNames :
        /\ h \in DOMAIN hospitals
        /\ Writes(procs[Other(p)], hospitals[h], "Reports")
        /\ Throw(p)

-----------------------------------------------------------------------------
(* PatientContract, package chaincode: patients and examinations *)

\* BirthDate, Height, Weight and Gender are carried like Contact
NewPatient(name, contact) == [kind |-> "P", Name |-> name, Contact |-> contact]

\* *patient: the value of the struct, field by field
PatientValue(obj) == <<obj.Name, obj.Contact>>

CreatePatient(p) ==
    \/ \E name \in PatientNames, contact \in Contacts :
        /\ CanCall(p)
        /\ Called(p)
        /\ LET a == [name |-> name, contact |-> contact] IN
           SetProc(p, IF name \in DOMAIN patients
                      THEN Return(Begin("CreatePatient", a, "call", 0), Err("patient already exists"))
                      ELSE Begin("CreatePatient", a, "insert", 0))
        /\ UNCHANGED <<manufacturers, hospitals, patients, objs, ledger, quota, putFails, hist>>
    \/ /\ procs[p].op = "CreatePatient" /\ procs[p].st = "insert"
       /\ LET a == procs[p].args
              obj == NewPatient(a.name, a.contact) IN
          /\ objs' = MapSet(objs, NewId, obj)
          /\ patients' = MapSet(patients, a.name, NewId)
          /\ SetProc(p, [procs[p] EXCEPT !.st = "put", !.doc = Marshal(obj), !.pk = a.name])
       /\ UNCHANGED <<manufacturers, hospitals, ledger, nOps, quota, putFails, hist>>

ConductExamination(p) ==
    \/ \E patientName \in PatientNames, h \in HospitalNames :
        Lookup(p, "ConductExamination", [patientName |-> patientName, h |-> h], hospitals, h,
               "hospital not found")
    \/ /\ procs[p].op = "ConductExamination" /\ procs[p].st = "body"
       /\ LET a == procs[p].args
              id == procs[p].ref
              \* hospital.Patients[patientName] = *patient: a copy of the struct
              os == [objs EXCEPT ![id].Patients =
                        MapSet(@, a.patientName, PatientValue(objs[patients[a.patientName]]))] IN
          IF a.patientName \notin DOMAIN patients
          THEN /\ objs' = Unlocked(objs, id)
               /\ SetProc(p, Return(procs[p], Err("patient not found")))
          ELSE /\ objs' = os
               /\ SetProc(p, [ToPut(procs[p], os, <<>>) EXCEPT !.st = "put1"])
       /\ UNCHANGED <<manufacturers, hospitals, patients, ledger, nOps, quota, putFails, hist>>
    \/ /\ procs[p].op = "ConductExamination" /\ procs[p].st = "body2"
       \* reportID := len(hospital.Reports) + 1
       /\ SetProc(p, [procs[p] EXCEPT !.st = "new", !.ret = Len1(objs[procs[p].ref].Reports)])
       /\ UNCHANGED <<manufacturers, hospitals, patients, objs, ledger, nOps, quota, putFails, hist>>
    \/ /\ procs[p].op = "ConductExamination" /\ procs[p].st = "new"
       /\ LET a == procs[p].args
              id == procs[p].ref
              reportID == procs[p].ret
              report == [ID |-> reportID, PatientName |-> a.patientName, Symptoms |-> <<>>,
                         NeededDrugs |-> <<>>]
              os == [objs EXCEPT ![id].Reports = MapSet(@, reportID, report)] IN
          /\ objs' = os
          /\ SetProc(p, ToPut(procs[p], os, reportID))
       /\ UNCHANGED <<manufacturers, hospitals, patients, ledger, nOps, quota, putFails, hist>>

\* the trace codes a caller may hold: the ones ProduceDrug can return, and
\* the drug names a removal returns for units ProduceDrug has keyed
TraceCodes ==
    {GenerateTraceCode(d, m, FormatPrice(price), t, nonce) :
        d \in DrugNames, m \in ManufacturerNames, price \in Prices, t \in Times, nonce \in Nonces}
    \cup DrugNames

\* DecodeTraceCode of each of them
Decoded == [traceCode \in TraceCodes |-> DecodeTraceCode(traceCode)]

\* the hospitals holding a unit whose TraceCode is traceCode
Holders(traceCode) ==
    {h \in DOMAIN hospitals :
        \E k \in DOMAIN objs[hospitals[h]].Inventory :
            objs[hospitals[h]].Inventory[k].TraceCode = traceCode}

\* the one unit ever produced under that code has gone to a hospital, and a
\* patient has since bought a unit of its name there
PatientBought(traceCode) ==
    /\ traceCode \in hist.produced
    /\ \E m \in ManufacturerNames, d \in DrugNames, h \in HospitalNames :
        /\ Decoded[traceCode].ok
        /\ Decoded[traceCode].drugName = d /\ Decoded[traceCode].manufacturer = m
        /\ hist.ins[<<m, d>>] = 1
        /\ <<m, d>> \in hist.sold
        /\ <<h, d>> \in hist.bought

TraceDrug(p) ==
    \/ \E traceCode \in TraceCodes :
        LET decoded == Decoded[traceCode]
            seen == [NoObs EXCEPT
                        !.dirty = \E h \in DOMAIN hospitals : Unpersisted(procs[Other(p)], hospitals[h]),
                        !.bought = PatientBought(traceCode)] IN
        IF ~decoded.ok
        THEN Read(p, "TraceDrug", [traceCode |-> traceCode], Err(decoded.err), FALSE)
        ELSE IF Holders(traceCode) = {}
        THEN ReadSeeing(p, "TraceDrug", [traceCode |-> traceCode], Err("drug not found"), seen)
        ELSE \* for _, hospital := range hospitals: any order, the first match
             \E h \in Holders(traceCode) :
                ReadSeeing(p, "TraceDrug", [traceCode |-> traceCode],
                           Ok([Name |-> decoded.drugName, TraceCode |-> traceCode,
                               Manufacturer |-> decoded.manufacturer, Price |-> decoded.price,
                               ProductionTime |-> decoded.productionTime, HospitalName |-> h]),
                           seen)
    \/ \E h \in HospitalNames :
        /\ h \in DOMAIN hospitals
        /\ Writes(procs[Other(p)], hospitals[h], "Inventory")
        /\ Throw(p)

-----------------------------------------------------------------------------
(* The contracts of package main *)

\* manufacturer.mu.Lock() and hospital.mu.Lock() on the nil pointer a lookup
\* of a missing name yields: the handler panics instead of returning
NilPanic == Err("panic: nil pointer dereference")

MainCreateManufacturer(p) ==
    \/ \E name \in ManufacturerNames, contact \in Contacts :
        /\ CanCall(p)
        /\ Called(p)
        /\ SetProc(p, [Begin("MainCreateManufacturer", [name |-> name, contact |-> contact], "insert", 0)
                         EXCEPT !.obs.had = (name \in DOMAIN manufacturers)])
        /\ UNCHANGED <<manufacturers, hospitals, patients, objs, ledger, quota, putFails, hist>>
    \/ /\ procs[p].op = "MainCreateManufacturer" /\ procs[p].st = "insert"
       /\ LET a == procs[p].args
              obj == NewManufacturer(a.name, a.contact) IN
          /\ objs' = MapSet(objs, NewId, obj)
          /\ manufacturers' = MapSet(manufacturers, a.name, NewId)
          /\ SetProc(p, [procs[p] EXCEPT !.st = "put", !.doc = Marshal(obj), !.pk = a.name])
       /\ UNCHANGED <<hospitals, patients, ledger, nOps, quota, putFails, hist>>

MainProduceDrug(p) ==
    \/ \E m \in ManufacturerNames, d \in DrugNames, price \in Prices :
        /\ CanCall(p)
        /\ Called(p)
        /\ LET a == [m |-> m, d |-> d, price |-> price] IN
           SetProc(p, IF m \notin DOMAIN manufacturers
                      THEN Return(Begin("MainProduceDrug", a, "call", 0), NilPanic)
                      ELSE [Begin("MainProduceDrug", a, "lock", manufacturers[m])
                              EXCEPT !.obs.had = TRUE])
        /\ UNCHANGED <<manufacturers, hospitals, patients, objs, ledger, quota, putFails, hist>>
    \/ /\ procs[p].op = "MainProduceDrug" /\ procs[p].st = "body"
       /\ \E productionTime \in Times, nonce \in Nonces :
          LET a == procs[p].args
              id == procs[p].ref
              traceCode == GenerateTraceCode(a.d, a.m, FormatPrice(a.price), productionTime, nonce)
              drug == [Name |-> a.d, TraceCode |-> traceCode, Manufacturer |-> a.m,
                       Price |-> a.price, ProductionTime |-> productionTime, InStock |-> TRUE]
              os == [objs EXCEPT ![id].Inventory = MapSet(@, a.d, drug)] IN
          /\ objs' = os
          /\ SetProc(p, [ToPut(procs[p], os, traceCode)
                           EXCEPT !.obs.stock = InStockUnit(objs[id].Inventory, a.d)])
          /\ hist' = [hist EXCEPT !.produced = @ \cup {traceCode},
                                  !.ins[<<a.m, a.d>>] = Counted(@)]
       /\ UNCHANGED <<manufacturers, hospitals, patients, ledger, nOps, quota, putFails>>

MainCreatePatient(p) ==
    \/ \E name \in PatientNames, contact \in Contacts :
        /\ CanCall(p)
        /\ Called(p)
        /\ SetProc(p, [Begin("MainCreatePatient", [name |-> name, contact |-> contact], "insert", 0)
                         EXCEPT !.obs.had = (name \in DOMAIN patients)])
        /\ UNCHANGED <<manufacturers, hospitals, patients, objs, ledger, quota, putFails, hist>>
    \/ /\ procs[p].op = "MainCreatePatient" /\ procs[p].st = "insert"
       /\ LET a == procs[p].args
              obj == NewPatient(a.name, a.contact) IN
          /\ objs' = MapSet(objs, NewId, obj)
          /\ patients' = MapSet(patients, a.name, NewId)
          /\ SetProc(p, [procs[p] EXCEPT !.st = "put", !.doc = Marshal(obj), !.pk = a.name])
       /\ UNCHANGED <<manufacturers, hospitals, ledger, nOps, quota, putFails, hist>>

MainBuyDrug(p) ==
    \/ \E patientName \in PatientNames, h \in HospitalNames, d \in DrugNames :
        /\ CanCall(p)
        /\ Called(p)
        /\ LET a == [patientName |-> patientName, h |-> h, d |-> d] IN
           SetProc(p, IF h \notin DOMAIN hospitals
                      THEN Return(Begin("MainBuyDrug", a, "call", 0), NilPanic)
                      ELSE Begin("MainBuyDrug", a, "lock", hospitals[h]))
        /\ UNCHANGED <<manufacturers, hospitals, patients, objs, ledger, quota, putFails, hist>>
    \/ /\ procs[p].op = "MainBuyDrug" /\ procs[p].st = "body"
       /\ LET a == procs[p].args
              id == procs[p].ref
              inv == objs[id].Inventory
              seen == [procs[p] EXCEPT !.obs.had = (Named(inv, a.d) # {}),
                                       !.obs.stock = InStockUnit(inv, a.d)] IN
          IF a.d \in DOMAIN inv
          THEN /\ SetProc(p, ToPut(seen, objs, inv[a.d].TraceCode))
               /\ UNCHANGED objs
          ELSE /\ objs' = Unlocked(objs, id)
               /\ SetProc(p, Return(seen, Err("drug not available")))
       /\ UNCHANGED <<manufacturers, hospitals, patients, ledger, nOps, quota, putFails, hist>>

\* ConductExamination of package main: no test of the hospital or of the
\* patient, and the roster entry is the value false
MainConductExamination(p) ==
    \/ \E patientName \in PatientNames, h \in HospitalNames :
        /\ CanCall(p)
        /\ Called(p)
        /\ LET a == [patientName |-> patientName, h |-> h] IN
           SetProc(p, IF h \notin DOMAIN hospitals
                      THEN Return(Begin("MainConductExamination", a, "call", 0), NilPanic)
                      ELSE [Begin("MainConductExamination", a, "lock", hospitals[h])
                              EXCEPT !.obs.had = TRUE])
        /\ UNCHANGED <<manufacturers, hospitals, patients, objs, ledger, quota, putFails, hist>>
    \/ /\ procs[p].op = "MainConductExamination" /\ procs[p].st = "body"
       /\ LET a == procs[p].args
              id == procs[p].ref
              os == [objs EXCEPT ![id].Patients = MapSet(@, a.patientName, FALSE)] IN
          /\ objs' = os
          /\ SetProc(p, [ToPut(procs[p], os, <<>>) EXCEPT !.st = "put1"])
       /\ UNCHANGED <<manufacturers, hospitals, patients, ledger, nOps, quota, putFails, hist>>
    \/ /\ procs[p].op = "MainConductExamination" /\ procs[p].st = "body2"
       /\ SetProc(p, [procs[p] EXCEPT !.st = "new", !.ret = Len1(objs[procs[p].ref].Reports)])
       /\ UNCHANGED <<manufacturers, hospitals, patients, objs, ledger, nOps, quota, putFails, hist>>
    \/ /\ procs[p].op = "MainConductExamination" /\ procs[p].st = "new"
       /\ LET a == procs[p].args
              id == procs[p].ref
              reportID == procs[p].ret
              report == [ID |-> reportID, PatientName |-> a.patientName, Symptoms |-> <<>>,
                         NeededDrugs |-> <<>>]
              os == [objs EXCEPT ![id].Reports = MapSet(@, reportID, report)] IN
          /\ objs' = os
          /\ SetProc(p, ToPut(procs[p], os, reportID))
       /\ UNCHANGED <<manufacturers, hospitals, patients, ledger, nOps, quota, putFails, hist>>

\* ViewReport of package main: hospital.Reports is read through the pointer the
\* lookup returned, nil for a name that is not registered
MainViewReport(p) ==
    \/ \E patientName \in PatientNames, h \in HospitalNames, reportID \in ReportIds :
        ReadSeeing(p, "MainViewReport", [patientName |-> patientName, h |-> h, reportID |-> reportID],
             IF h \notin DOMAIN hospitals THEN NilPanic
             ELSE LET reports == objs[hospitals[h]].Reports IN
                  IF reportID \in DOMAIN reports /\ reports[reportID].PatientName = patientName
                  THEN Ok(reports[reportID]) ELSE Err("report not found"),
             Viewing(p, h, reportID, patientName))
    \/ \E h \in HospitalNames :
        /\ h \in DOMAIN hospitals
        /\ Writes(procs[Other(p)], hospitals[h], "Reports")
        /\ Throw(p)

-----------------------------------------------------------------------------
(* The hospital's purchase as the specification describes it *)

(***************************************************************************)
(* HospitalBuysDrug(hospital, manufacturer, drugName): both entities must  *)
(* exist; under the two locks the in-stock unit leaves the manufacturer's  *)
(* inventory and enters the hospital's, holder rewritten and InStock true, *)
(* under the key BuyDrug looks it up by; both documents are persisted.     *)
(***************************************************************************)
HospitalBuysDrug(p) ==
    \E h \in HospitalNames, m \in ManufacturerNames, d \in DrugNames :
        LET a == [h |-> h, m |-> m, d |-> d]
            call == Begin("HospitalBuysDrug", a, "call", 0)
            mid == manufacturers[m]
            hid == hospitals[h]
            units == {k \in Named(objs[mid].Inventory, d) : objs[mid].Inventory[k].InStock} IN
        /\ CanCall(p)
        /\ Called(p)
        /\ UNCHANGED <<manufacturers, hospitals, patients, quota, putFails>>
        /\ IF m \notin DOMAIN manufacturers \/ h \notin DOMAIN hospitals
           THEN /\ SetProc(p, Return(call, Err(IF m \notin DOMAIN manufacturers
                                               THEN "manufacturer not found"
                                               ELSE "hospital not found")))
                /\ UNCHANGED <<objs, ledger, hist>>
           ELSE /\ CanLock(objs[mid])
                /\ CanLock(objs[hid])
                /\ IF units = {}
                   THEN /\ SetProc(p, Return(call, Err("drug not available")))
                        /\ UNCHANGED <<objs, ledger, hist>>
                   ELSE \E k \in units :
                        LET unit == objs[mid].Inventory[k]
                            drug == [Name |-> d, TraceCode |-> unit.TraceCode, HospitalName |-> h,
                                     InStock |-> TRUE]
                            os == [objs EXCEPT ![mid].Inventory = MapDel(@, k),
                                               ![hid].Inventory = MapSet(@, d, drug)] IN
                        /\ objs' = os
                        /\ ledger' = MapSet(MapSet(ledger, m, Marshal(os[mid])), h, Marshal(os[hid]))
                        /\ hist' = [hist EXCEPT !.sold = @ \cup {<<m, d>>}]
                        /\ SetProc(p, Return(call, Ok(unit.TraceCode)))

-----------------------------------------------------------------------------
(* Specifications *)

\* the supply chain: production, the hospital's purchase, the patient's
\* purchase and the trace of a code
Next ==
    \E p \in Procs :
        \/ Lock(p)
        \/ PutReturn(p)
        \/ Fatal(p)
        \/ CreateManufacturer(p)
        \/ ProduceDrug(p)
        \/ AddDrugToMnfcInventory(p)
        \/ RemoveDrugFromMnfcInventory(p)
        \/ CreateHospital(p)
        \/ AddDrugToHospitalInventory(p)
        \/ RemoveDrugFromHospitalInventory(p)
        \/ BuyDrug(p)
        \/ TraceDrug(p)

Spec == Init /\ [][Next]_vars

\* the entity store, the rosters and the reports
InitRecords == Start /\ quota = Quota(MaxOpsAll, MaxConc)

NextRecords ==
    \E p \in Procs :
        \/ Lock(p)
        \/ PutReturn(p)
        \/ Fatal(p)
        \/ CreateManufacturer(p)
        \/ ProduceDrug(p)
        \/ AddDrugToMnfcInventory(p)
        \/ CreateHospital(p)
        \/ CreatePatient(p)
        \/ CreatePatientRecord(p)
        \/ ModifyReport(p)
        \/ ConductExamination(p)
        \/ HospitalGetPatients(p)
        \/ ViewReport(p)

SpecRecords == InitRecords /\ [][NextRecords]_vars

\* the contracts of package main over the hospital contract
InitMain == Start /\ quota = Quota(MaxOps, MaxConc)

NextMain ==
    \E p \in Procs :
        \/ Lock(p)
        \/ PutReturn(p)
        \/ Fatal(p)
        \/ MainCreateManufacturer(p)
        \/ MainProduceDrug(p)
        \/ MainCreatePatient(p)
        \/ MainBuyDrug(p)
        \/ CreateHospital(p)
        \/ RemoveDrugFromMnfcInventory(p)
        \/ AddDrugToHospitalInventory(p)

SpecMain == InitMain /\ [][NextMain]_vars

\* the patient's purchase over the hospital's purchase of the specification
InitBuy == Start /\ quota = Quota(MaxOps + 1, MaxConc)

NextBuy ==
    \E p \in Procs :
        \/ Lock(p)
        \/ PutReturn(p)
        \/ Fatal(p)
        \/ CreateManufacturer(p)
        \/ ProduceDrug(p)
        \/ CreateHospital(p)
        \/ HospitalBuysDrug(p)
        \/ BuyDrug(p)

SpecBuy == InitBuy /\ [][NextBuy]_vars


\* the patient contract of package main over the manufacturer and hospital
\* contracts: a unit's way from production to the patient, and its trace
InitTrace == Start /\ quota = Quota(MaxOps + 1, MaxConc)

NextTrace ==
    \E p \in Procs :
        \/ Lock(p)
        \/ PutReturn(p)
        \/ Fatal(p)
        \/ CreateManufacturer(p)
        \/ ProduceDrug(p)
        \/ CreateHospital(p)
        \/ RemoveDrugFromMnfcInventory(p)
        \/ AddDrugToHospitalInventory(p)
        \/ MainBuyDrug(p)
        \/ TraceDrug(p)

SpecTrace == InitTrace /\ [][NextTrace]_vars

\* the examinations and reports of the patient contract of package main over
\* the hospital contract
InitReports == Start /\ quota = Quota(MaxOpsAll, MaxConc)

NextReports ==
    \E p \in Procs :
        \/ Lock(p)
        \/ PutReturn(p)
        \/ Fatal(p)
        \/ CreateHospital(p)
        \/ ModifyReport(p)
        \/ MainConductExamination(p)
        \/ MainViewReport(p)

SpecReports == InitReports /\ [][NextReports]_vars

-----------------------------------------------------------------------------
(* Direct calls of the codec *)

PriceTexts == {FormatPrice(price) : price \in CodecPrices} \cup {<<"abc">>}

\* texts no GenerateTraceCode call has returned
OtherTexts == {<<"d1">>, <<"d1", "-", "m1">>}

Generate(p) ==
    \E drugName \in CodecNames, manufacturer \in CodecManufacturers, price \in PriceTexts,
       productionTime \in CodecTimes, nonce \in Draws :
        /\ CanCall(p)
        /\ Called(p)
        /\ SetProc(p, Return(Begin("GenerateTraceCode",
                                   [drugName |-> drugName, manufacturer |-> manufacturer,
                                    price |-> price, productionTime |-> productionTime],
                                   "call", 0),
                             Ok(GenerateTraceCode(drugName, manufacturer, price, productionTime, nonce))))
        /\ UNCHANGED <<manufacturers, hospitals, patients, objs, ledger, quota, putFails, hist>>

\* a GenerateTraceCode call has returned to that goroutine
Generated(pr) == pr.st = "done" /\ pr.op = "GenerateTraceCode"

DecodeResult(traceCode) ==
    LET decoded == DecodeTraceCode(traceCode) IN
    IF decoded.ok
    THEN Ok([drugName |-> decoded.drugName, manufacturer |-> decoded.manufacturer,
             price |-> decoded.price, productionTime |-> decoded.productionTime])
    ELSE Err(decoded.err)

\* DecodeTraceCode of the code a GenerateTraceCode call has just returned (args.of
\* keeps that call's arguments), or of some other text
Decode(p) ==
    \/ \E q \in Procs :
        /\ Generated(procs[q])
        /\ CanCall(p)
        /\ Called(p)
        /\ SetProc(p, Return(Begin("DecodeTraceCode",
                                   [traceCode |-> procs[q].res.val, gen |-> TRUE, of |-> procs[q].args],
                                   "call", 0),
                             DecodeResult(procs[q].res.val)))
        /\ UNCHANGED <<manufacturers, hospitals, patients, objs, ledger, quota, putFails, hist>>
    \/ \E traceCode \in OtherTexts :
        /\ CanCall(p)
        /\ Called(p)
        /\ SetProc(p, Return(Begin("DecodeTraceCode",
                                   [traceCode |-> traceCode, gen |-> FALSE, of |-> NoArgs],
                                   "call", 0),
                             DecodeResult(traceCode)))
        /\ UNCHANGED <<manufacturers, hospitals, patients, objs, ledger, quota, putFails, hist>>

InitCodec == Start /\ quota = Quota(MaxCodecOps, MaxConc)

NextCodec == \E p \in Procs : Generate(p) \/ Decode(p)

SpecCodec == InitCodec /\ [][NextCodec]_vars

-----------------------------------------------------------------------------
(* Properties *)

Done(pr) == pr.st = "done"

\* a finished purchase that ran against the other goroutine's purchase of the
\* same drug name while the manufacturer held exactly one unit of it
Raced(pr) == Done(pr) /\ IsPurchase(pr) /\ pr.obs.race /\ pr.obs.u0 = 1

Bought(pr) == pr.op = "AddDrugToHospitalInventory" /\ pr.res.ok

NotAvailable(pr) == pr.op = "RemoveDrugFromMnfcInventory" /\ pr.res.err = "drug not available"

\* the purchase failed for a reason outside the inventory: a PutState error or
\* a buyer that does not exist
Thwarted(pr) == pr.res.err \in {"put failed", "hospital not found"}

\* C1: of two concurrent purchases of the same drug name from a manufacturer
\* holding exactly one unit of it, never both succeed; and unless a purchase
\* fails on a Put or a missing hospital, exactly one succeeds and the other
\* gets "drug not available"
C1_OneBuyerWins ==
    (Raced(procs[1]) /\ Raced(procs[2])) =>
        /\ ~(Bought(procs[1]) /\ Bought(procs[2]))
        /\ (~Thwarted(procs[1]) /\ ~Thwarted(procs[2])) =>
              \/ Bought(procs[1]) /\ NotAvailable(procs[2])
              \/ Bought(procs[2]) /\ NotAvailable(procs[1])

C1_Witness ==
    /\ Raced(procs[1]) /\ Raced(procs[2])
    /\ Bought(procs[2]) /\ NotAvailable(procs[1])

\* the entry a handler has added is in the aggregate x (a cached entity or a
\* ledger document)
Has(x, pr) ==
    CASE pr.op = "ProduceDrug" -> pr.args.d \in DOMAIN x.Inventory
      [] pr.op = "AddDrugToMnfcInventory" -> pr.args.traceCode \in DOMAIN x.Inventory
      [] pr.op \in {"CreatePatientRecord", "ConductExamination"} ->
            pr.args.patientName \in DOMAIN x.Patients
      [] pr.op = "ModifyReport" ->
            /\ pr.res.val \in DOMAIN x.Reports
            /\ x.Reports[pr.res.val].PatientName = pr.args.patientName
      [] OTHER -> FALSE

\* the cached aggregate a handler added to
Cached(pr) ==
    IF Target(pr)[1] = "M" THEN objs[manufacturers[Target(pr)[2]]] ELSE objs[hospitals[Target(pr)[2]]]

\* both goroutines have returned success from handlers that ran concurrently
\* on the same aggregate
BothAdded ==
    \A p \in Procs : Done(procs[p]) /\ procs[p].res.ok /\ procs[p].obs.conc

\* C2: when two handlers that add to the same manufacturer or hospital run
\* concurrently and both succeed, the cached aggregate and its ledger document
\* contain the entries of both
C2_NoLostUpdate ==
    BothAdded =>
        \A p \in Procs :
            /\ Has(Cached(procs[1]), procs[p])
            /\ Target(procs[1])[2] \in DOMAIN ledger
            /\ Has(ledger[Target(procs[1])[2]], procs[p])

C2_Witness ==
    /\ BothAdded
    /\ procs[1].op = "ModifyReport"
    /\ procs[2].op = "CreatePatientRecord"

\* C3 (as the code refutes it): a handler that reads a hospital never reads
\* while the other goroutine has changed that hospital and not yet persisted it
C3_ReadsSeePersisted ==
    \A p \in Procs :
        (Done(procs[p]) /\ procs[p].op \in {"ViewReport", "HospitalGetPatients", "TraceDrug"})
            => ~procs[p].obs.dirty

\* C4 (as the code refutes it): once the purchase of d by h has succeeded, h
\* holds an entry for d with holder h and the trace code of the unit that
\* left the manufacturer
C4_SameCodeAtHospital ==
    \A p \in Procs :
        (/\ Done(procs[p]) /\ Bought(procs[p])
         /\ procs[Other(p)].op # "RemoveDrugFromHospitalInventory")
            => LET a == procs[p].args
                   inv == objs[hospitals[a.h]].Inventory IN
               \E k \in Named(inv, a.d) :
                   inv[k].HospitalName = a.h /\ inv[k].TraceCode = a.unit.TraceCode

\* the purchase has scanned the manufacturer's inventory when the one unit of
\* its drug name ever put there had already been bought
SecondPurchase(pr) ==
    IsPurchase(pr) /\ pr.st \notin {"call", "lock", "body"} /\ pr.obs.ins = 1 /\ pr.obs.sold

\* the inventories of the cached entities
Inventories(os) ==
    [id \in DOMAIN os |-> IF os[id].kind = "P" THEN EmptyMap ELSE os[id].Inventory]

\* C5: a second purchase of a manufacturer's only unit of a drug name fails
\* with "drug not available", and the step in which it fails changes no
\* inventory and no ledger document
C5_SecondPurchaseFails ==
    /\ [](\A p \in Procs : SecondPurchase(procs[p]) => Done(procs[p]) /\ NotAvailable(procs[p]))
    /\ [][\A p \in Procs :
            (SecondPurchase(procs'[p]) /\ procs[p].st = "body")
                => Inventories(objs') = Inventories(objs) /\ ledger' = ledger]_vars

C5_Witness ==
    \E p \in Procs : SecondPurchase(procs[p]) /\ NotAvailable(procs[p])

\* C6 (as the code refutes it): a Create of a name that already exists returns
\* "already exists"
C6_SecondCreateRejected ==
    \A p \in Procs :
        (/\ Done(procs[p]) /\ procs[p].obs.had
         /\ procs[p].op \in {"MainCreateManufacturer", "MainCreatePatient"})
            => procs[p].res.err \in {"manufacturer already exists", "patient already exists"}

\* the entities whose inventory holds a unit with that trace code
HoldersOf(traceCode) ==
    {id \in DOMAIN objs :
        /\ objs[id].kind # "P"
        /\ \E k \in DOMAIN objs[id].Inventory : objs[id].Inventory[k].TraceCode = traceCode}

\* no goroutine is inside a handler
Quiet == \A p \in Procs : procs[p].st \in {"idle", "done", "mid", "dead"}

\* C7 (as the code refutes it): whenever no handler is running, every unit
\* produced is in the inventory of exactly one entity
C7_OneHolder ==
    Quiet => \A traceCode \in hist.produced : Cardinality(HoldersOf(traceCode)) = 1

\* C8 (as the code refutes it): a patient's BuyDrug of a drug name of which
\* the hospital holds a unit succeeds
C8_PatientCanBuy ==
    \A p \in Procs :
        (Done(procs[p]) /\ procs[p].op = "BuyDrug" /\ procs[p].obs.had) => procs[p].res.ok

C10_BuyDrugGuarded ==
    \A p \in Procs :
        (Done(procs[p]) /\ procs[p].op = "MainBuyDrug")
            => \/ procs[p].res.ok /\ procs[p].obs.stock
               \/ procs[p].res.err \in {"hospital not found", "drug not available", "put failed"}


\* C11 (as the code refutes it): the TraceCode of every record in every
\* inventory is a code that was generated for a unit
C11_CodeUnchanged ==
    \A id \in DOMAIN objs :
        objs[id].kind # "P" =>
            \A k \in DOMAIN objs[id].Inventory : objs[id].Inventory[k].TraceCode \in hist.produced

\* the text holds no "-"
DashFree(s) == \A i \in 1..Len(s) : s[i] # Dash

\* a DecodeTraceCode call has returned from the code GenerateTraceCode made of
\* two names, a price text and a time none of which holds the delimiter
RoundTrip(pr) ==
    /\ pr.st = "done" /\ pr.op = "DecodeTraceCode" /\ pr.args.gen
    /\ DashFree(pr.args.of.drugName) /\ DashFree(pr.args.of.manufacturer)
    /\ DashFree(pr.args.of.price) /\ IsFloat(pr.args.of.price)
    /\ DashFree(pr.args.of.productionTime)

\* C12: DecodeTraceCode of GenerateTraceCode(n, m, p, t) returns n, m, the
\* price p writes and t, whenever n, m, the price text p and t hold no "-"
C12_DecodeInvertsGenerate ==
    \A p \in Procs :
        RoundTrip(procs[p]) =>
            /\ procs[p].res.ok
            /\ procs[p].res.val.drugName = procs[p].args.of.drugName
            /\ procs[p].res.val.manufacturer = procs[p].args.of.manufacturer
            /\ FormatPrice(procs[p].res.val.price) = procs[p].args.of.price
            /\ procs[p].res.val.productionTime = procs[p].args.of.productionTime

C12_Witness ==
    \E p \in Procs :
        /\ RoundTrip(procs[p])
        /\ procs[p].res.ok
        /\ procs[p].args.of.drugName = <<"d1">>
        /\ procs[p].res.val.productionTime = <<"t1">>

\* C13 (as the code refutes it): two GenerateTraceCode calls with the same
\* four arguments return different codes
C13_CodesDiffer ==
    (Generated(procs[1]) /\ Generated(procs[2]) /\ procs[1].args = procs[2].args)
        => procs[1].res.val # procs[2].res.val

\* the trace returns the four values the code was generated from
Provenance(traceCode, info) ==
    \E d \in DrugNames, m \in ManufacturerNames, price \in Prices, t \in Times, nonce \in Nonces :
        /\ traceCode = GenerateTraceCode(d, m, FormatPrice(price), t, nonce)
        /\ info.Name = d /\ info.Manufacturer = m /\ info.Price = price /\ info.ProductionTime = t

\* C14 (as the code refutes it): TraceDrug of the code of a unit that a
\* patient has since bought succeeds and returns the name, manufacturer, price
\* and production time the unit was produced with
C14_TraceAfterSale ==
    \A p \in Procs :
        (Done(procs[p]) /\ procs[p].op = "TraceDrug" /\ procs[p].obs.bought)
            => procs[p].res.ok /\ Provenance(procs[p].args.traceCode, procs[p].res.val)

\* C15 (as the code refutes it): TraceDrug of a code that DecodeTraceCode
\* accepts succeeds, whatever the inventories hold
C15_TraceAlwaysDecodes ==
    \A p \in Procs :
        (Done(procs[p]) /\ procs[p].op = "TraceDrug" /\ Decoded[procs[p].args.traceCode].ok)
            => procs[p].res.ok

\* C16 (as the code refutes it): a ProduceDrug of package main that names no
\* registered manufacturer returns "manufacturer not found", and one that finds
\* an in-stock unit of that name returns "drug already exists"
C16_ProduceDrugGuarded ==
    \A p \in Procs :
        (Done(procs[p]) /\ procs[p].op = "MainProduceDrug")
            => /\ ~procs[p].obs.had => procs[p].res.err = "manufacturer not found"
               /\ procs[p].obs.stock => procs[p].res.err = "drug already exists"

\* the step in which goroutine p's purchase returns "hospital not found"
NoSuchBuyer(p) ==
    /\ procs[p].st = "mid"
    /\ procs'[p].st = "done"
    /\ procs'[p].op = "AddDrugToHospitalInventory"
    /\ procs'[p].res.err = "hospital not found"

\* C17 (as the code refutes it): when a purchase fails because the buying
\* hospital is not registered, the manufacturer still holds the unit, in memory
\* and on the ledger
C17_NoBuyerNoRemoval ==
    [][\A p \in Procs :
        NoSuchBuyer(p) =>
            LET a == procs'[p].args IN
            /\ a.traceCode \in DOMAIN objs'[manufacturers'[a.m]].Inventory
            /\ a.traceCode \in DOMAIN ledger'[a.m].Inventory]_vars

\* the errors of a purchase that fails in its first call, before any document
\* is written: the lookup, the scan of the inventory, the manufacturer's Put
CleanFailures == {"manufacturer not found", "drug not available", "put failed"}

\* the purchase wrote the manufacturer's document and then failed in its second call
PartialTransfer(pr) == Done(pr) /\ pr.op = "AddDrugToHospitalInventory" /\ ~pr.res.ok

\* C18 (as the code refutes it): a purchase that fails after the manufacturer's
\* document was written returns an error that no purchase returns when nothing
\* was written
C18_PartialTransferDistinct ==
    \A p \in Procs : PartialTransfer(procs[p]) => procs[p].res.err \notin CleanFailures

\* the next statement of the handler (or of the purchase) goroutine p is inside
Continue(p) ==
    /\ Active(procs[p])
    /\ \/ Lock(p)
       \/ PutReturn(p)
       \/ CreateManufacturer(p)
       \/ ProduceDrug(p)
       \/ AddDrugToMnfcInventory(p)
       \/ RemoveDrugFromMnfcInventory(p)
       \/ CreateHospital(p)
       \/ AddDrugToHospitalInventory(p)
       \/ RemoveDrugFromHospitalInventory(p)
       \/ BuyDrug(p)

\* goroutine p is inside a handler of a process that is alive
Running(p) == Active(procs[p]) /\ procs[p].st # "dead"

\* goroutine p waits in mu.Lock() for a mutex that is held
Blocked(p) == procs[p].st = "lock" /\ ~CanLock(objs[procs[p].ref])

\* the mutexes goroutine p holds
Held(p) == {id \in DOMAIN objs : objs[id].mu = p}

\* C19: no goroutine inside a handler is stuck: it can take its next step, or it
\* waits for a mutex whose holder is another goroutine that waits for nothing
\* and can take its next step; a goroutine holds at most one mutex, and none
\* while it waits for one (a purchase releases the manufacturer before it
\* locks the hospital)
C19_NoDeadlock ==
    \A p \in Procs :
        /\ Cardinality(Held(p)) <= 1
        /\ procs[p].st = "lock" => Held(p) = {}
        /\ Running(p) =>
            IF Blocked(p)
            THEN LET q == objs[procs[p].ref].mu IN
                 q # p /\ ~Blocked(q) /\ ENABLED Continue(q)
            ELSE ENABLED Continue(p)

\* a purchase waits for the hospital's mutex, which the other goroutine holds,
\* after it released the manufacturer's
C19_Witness ==
    \E p \in Procs :
        /\ Blocked(p)
        /\ procs[p].op = "AddDrugToHospitalInventory"
        /\ Held(Other(p)) # {}

\* the supply chain under a fair scheduler: a goroutine inside a handler that
\* can run its next statement eventually runs it
SpecFair == Init /\ [][Next]_vars /\ \A p \in Procs : WF_vars(Continue(p))

\* C20 (as the code refutes it): every operation a goroutine has started
\* eventually returns to its caller
C20_EveryOperationReturns ==
    \A p \in Procs : Active(procs[p]) ~> Done(procs[p])

\* no goroutine is inside a handler, and no PutState has failed
AtRest == putFails = 0 /\ \A p \in Procs : procs[p].st \in {"idle", "done"}

\* the ledger holds, under the entity's name, the serialization of the entity
Persisted(entities, name) ==
    name \in DOMAIN ledger /\ ledger[name] = Marshal(objs[entities[name]])

\* C21 (as the code refutes it): whenever no handler is running and every Put
\* has succeeded, the document under each entity's name is the serialization of
\* the entity as cached
C21_LedgerMatchesCache ==
    AtRest =>
        /\ \A name \in DOMAIN manufacturers : Persisted(manufacturers, name)
        /\ \A name \in DOMAIN hospitals : Persisted(hospitals, name)
        /\ \A name \in DOMAIN patients : Persisted(patients, name)

\* C22 (as the code refutes it): every name in a hospital's roster is the name
\* of a patient that has been created
C22_RosterOfCreatedPatients ==
    \A h \in DOMAIN hospitals : DOMAIN objs[hospitals[h]].Patients \subseteq DOMAIN patients

\* goroutine p's CreatePatientRecord, for a patient the roster holds, takes the
\* step that writes the roster
Reenrolls(p) ==
    /\ procs[p].op = "CreatePatientRecord" /\ procs[p].st = "body"
    /\ procs'[p].st = "put"
    /\ procs'[p].obs.had

\* that CreatePatientRecord takes its PutState step, and the Put succeeds
ReenrollmentPut(p) ==
    /\ procs[p].op = "CreatePatientRecord" /\ procs[p].st = "put" /\ procs[p].obs.had
    /\ procs'[p].st = "done"
    /\ putFails' = putFails

\* C23: a CreatePatientRecord for a patient already enrolled leaves the cached
\* hospital (roster, reports, inventory) as it was, succeeds, and writes the
\* document of that unchanged hospital: where the ledger held it already, the
\* ledger does not change
C23_ReenrollmentIdempotent ==
    [][\A p \in Procs :
        /\ Reenrolls(p) => Marshal(objs'[procs[p].ref]) = Marshal(objs[procs[p].ref])
        /\ ReenrollmentPut(p) =>
            /\ procs'[p].res.ok
            /\ ledger'[procs[p].pk] = Marshal(objs[procs[p].ref])
            /\ (procs[p].pk \in DOMAIN ledger /\ ledger[procs[p].pk] = procs[p].doc)
                    => ledger' = ledger]_vars

\* a second enrollment has returned success and the ledger holds the hospital
\* with its one roster entry
C23_Witness ==
    \E p \in Procs :
        /\ Done(procs[p]) /\ procs[p].op = "CreatePatientRecord"
        /\ procs[p].obs.had /\ procs[p].res.ok
        /\ procs[p].args.h \in DOMAIN ledger
        /\ Enrolled(ledger[procs[p].args.h].Patients, procs[p].args.patientName)

\* goroutine p's report creation has returned success
Created(pr) == Done(pr) /\ pr.op \in ReportCreations /\ pr.res.ok

\* C24 (as the code refutes it): the k-th report creation of a hospital that
\* returns success returns the ID k
C24_KthCreationReturnsK ==
    \A p \in Procs : Created(procs[p]) => procs[p].res.val = procs[p].obs.nth

\* every report of the hospital (cached or as a document) names a patient of
\* its roster
ReportsOfRoster(hospital) ==
    \A i \in DOMAIN hospital.Reports : hospital.Reports[i].PatientName \in DOMAIN hospital.Patients

\* C25: every report stored in a hospital, in the cache and in the hospital's
\* document on the ledger, names a patient that is in that hospital's roster
C25_ReportsNameRosterPatients ==
    /\ \A id \in DOMAIN objs : objs[id].kind = "H" => ReportsOfRoster(objs[id])
    /\ \A h \in DOMAIN hospitals : h \in DOMAIN ledger => ReportsOfRoster(ledger[h])

\* a ModifyReport and a ConductExamination have both stored a report in the
\* same hospital
C25_Witness ==
    \E id \in DOMAIN objs :
        /\ objs[id].kind = "H"
        /\ Cardinality(DOMAIN objs[id].Reports) = 2
        /\ \E i \in DOMAIN objs[id].Reports : objs[id].Reports[i].Symptoms = <<>>
        /\ \E i \in DOMAIN objs[id].Reports : objs[id].Reports[i].Symptoms # <<>>

\* both goroutines have returned success from report creations that ran
\* concurrently on the same hospital
BothCreated == \A p \in Procs : Created(procs[p]) /\ procs[p].obs.conc

\* C26: two report creations that ran concurrently on the same hospital and
\* both succeeded returned different IDs, and the hospital holds under each ID
\* the report of the creation that returned it
C26_ConcurrentCreationsDistinct ==
    BothCreated =>
        /\ procs[1].res.val # procs[2].res.val
        /\ \A p \in Procs :
            LET reports == objs[hospitals[procs[p].args.h]].Reports IN
            /\ procs[p].res.val \in DOMAIN reports
            /\ reports[procs[p].res.val].PatientName = procs[p].args.patientName
            /\ reports[procs[p].res.val].ID = procs[p].res.val

C26_Witness ==
    /\ BothCreated
    /\ procs[1].args.h = procs[2].args.h
    /\ Cardinality(DOMAIN objs[hospitals[procs[1].args.h]].Reports) = 2

\* the reports of the hospital registered under that name
ReportsOf(h) == objs[hospitals[h]].Reports

\* C27 (as the code refutes it): a step never changes or removes a report of a
\* registered hospital, and the IDs of a hospital's reports are 1..n
C27_ReportsCreateOnly ==
    /\ [](\A h \in DOMAIN hospitals : DOMAIN ReportsOf(h) = 1..Cardinality(DOMAIN ReportsOf(h)))
    /\ [][\A h \in DOMAIN hospitals :
            \A i \in DOMAIN ReportsOf(h) :
                i \in DOMAIN ReportsOf(h)' /\ ReportsOf(h)'[i] = ReportsOf(h)[i]]_vars

\* the errors that say that something was not found
NotFound == {"hospital not found", "report not found"}

\* C28 (as the code refutes it): a ViewReport returns the stored report when
\* the hospital exists and stores a report of that patient under that ID, and
\* a not-found error in every other case
C28_ViewReportExactly ==
    \A p \in Procs :
        (Done(procs[p]) /\ procs[p].op \in {"ViewReport", "MainViewReport"}) =>
            IF procs[p].obs.had
            THEN /\ procs[p].res.ok
                 /\ procs[p].res.val.ID = procs[p].args.reportID
                 /\ procs[p].res.val.PatientName = procs[p].args.patientName
            ELSE procs[p].res.err \in NotFound

\* C29 (as the code refutes it): no handler dereferences the nil pointer the
\* lookup of an unregistered manufacturer or hospital yields
C29_NoNilDereference ==
    \A p \in Procs : Done(procs[p]) => procs[p].res # NilPanic

\* the Create handlers of package chaincode
Creates == {"CreateManufacturer", "CreateHospital", "CreatePatient"}

\* both goroutines have returned from a Create of the same kind and name
SameCreate ==
    /\ \A p \in Procs : Done(procs[p]) /\ procs[p].op \in Creates
    /\ procs[1].op = procs[2].op
    /\ procs[1].args.name = procs[2].args.name

\* C30 (as the code refutes it): of two Create calls of the same kind and
\* name, at most one returns success
C30_OneCreateWins ==
    SameCreate => ~(procs[1].res.ok /\ procs[2].res.ok)

\* the records ProduceDrug has stored and that are still where it stored them
ProducedRecords ==
    UNION {{objs[id].Inventory[k] : k \in {j \in DOMAIN objs[id].Inventory : objs[id].Inventory[j].InStock}} :
            id \in {i \in DOMAIN objs : objs[i].kind = "M"}}

\* C31 (as the code refutes it): the trace code of every record ProduceDrug
\* stored decodes to the record's name, manufacturer, price and production time
C31_CodeDecodesToRecord ==
    \A drug \in ProducedRecords :
        LET decoded == Decoded[drug.TraceCode] IN
        /\ decoded.ok
        /\ decoded.drugName = drug.Name
        /\ decoded.manufacturer = drug.Manufacturer
        /\ decoded.price = drug.Price
        /\ decoded.productionTime = drug.ProductionTime

\* the inventories of the manufacturers and hospitals
Stocks == {objs[id].Inventory : id \in {i \in DOMAIN objs : objs[i].kind # "P"}}

\* C32 (as the code refutes it): every record of every inventory is stored
\* under one and the same kind of key, its trace code or its drug name
C32_OneCanonicalKey ==
    \/ \A inv \in Stocks : \A k \in DOMAIN inv : k = inv[k].TraceCode
    \/ \A inv \in Stocks : \A k \in DOMAIN inv : k = inv[k].Name

\* C33 (as the code refutes it): a RemoveDrugFromMnfcInventory that has
\* returned success returned the trace code of the record it removed
C33_RemoveReturnsTraceCode ==
    \A p \in Procs :
        (procs[p].op = "RemoveDrugFromMnfcInventory" /\ procs[p].st = "mid")
            => procs[p].res.ok /\ procs[p].res.val = procs[p].drug.TraceCode

\* goroutine p's handler has returned the error of its PutState, and the other
\* goroutine has never called a handler
PutFailedAlone(p) ==
    Done(procs[p]) /\ procs[p].res.err = "put failed" /\ nOps[Other(p)] = 0

\* C34 (as the code refutes it): after a handler has returned the error of its
\* Put, every cached entity is on the ledger as it is cached
C34_FailedPutLeavesNoTrace ==
    \A p \in Procs :
        PutFailedAlone(p) =>
            /\ \A name \in DOMAIN manufacturers : Persisted(manufacturers, name)
            /\ \A name \in DOMAIN hospitals : Persisted(hospitals, name)
            /\ \A name \in DOMAIN patients : Persisted(patients, name)

\* C35 (as the code refutes it): a ConductExamination that returned the error
\* of a Put, at a hospital where no report had been created before, has left
\* neither a roster entry of its patient nor a report in the cache
C35_FailedExaminationAddsNothing ==
    \A p \in Procs :
        LET a == procs[p].args IN
        (PutFailedAlone(p) /\ procs[p].op = "ConductExamination" /\ hist.created[a.h] = 0) =>
            /\ ~InRoster(objs[hospitals[a.h]].Patients, a.patientName)
            /\ DOMAIN objs[hospitals[a.h]].Reports = {}

-----------------------------------------------------------------------------
(* The listings and ValidHospital *)

\* for manufacturerName := range manufacturers { append }
GetManufacturers(p) ==
    ReadSeeing(p, "GetManufacturers", NoArgs, Ok(DOMAIN manufacturers), NoObs)

\* for hospitalName := range hospitals { append }
GetHospitals(p) ==
    ReadSeeing(p, "GetHospitals", NoArgs, Ok(DOMAIN hospitals), NoObs)

\* PatientContract.GetPatients: for patientName := range manufacturers { append }
GetPatients(p) ==
    ReadSeeing(p, "GetPatients", NoArgs, Ok(DOMAIN manufacturers), NoObs)

\* the same handler in patient.go: for patientName := range patients { append }
PatientGetPatients(p) ==
    ReadSeeing(p, "PatientGetPatients", NoArgs, Ok(DOMAIN patients), NoObs)

\* the names a caller may ask ValidHospital about
EntityNames == ManufacturerNames \cup HospitalNames \cup PatientNames

\* GetState(hospitalName): the read fails, or yields the document or nil;
\* hospitalJSON == nil -> false, otherwise true
ValidHospital(p) ==
    \E hospitalName \in EntityNames :
        \E res \in {Ok(hospitalName \in DOMAIN ledger),
                    Err("failed to read hospital from world state")} :
            ReadSeeing(p, "ValidHospital", [h |-> hospitalName], res, NoObs)

\* the Create handlers of the three contracts, the listings and ValidHospital
InitNames == Start /\ quota = Quota(MaxOps, MaxConc)

NextNames ==
    \E p \in Procs :
        \/ PutReturn(p)
        \/ Fatal(p)
        \/ CreateManufacturer(p)
        \/ CreateHospital(p)
        \/ CreatePatient(p)
        \/ GetManufacturers(p)
        \/ GetHospitals(p)
        \/ GetPatients(p)
        \/ PatientGetPatients(p)
        \/ ValidHospital(p)

SpecNames == InitNames /\ [][NextNames]_vars

\* goroutine p's handler has returned and nothing has run since; the other
\* goroutine has never called a handler
ReturnedAlone(p, op) == Done(procs[p]) /\ procs[p].op = op /\ nOps[Other(p)] = 0

\* C36 (as the code refutes it): the patient contract's GetPatients returns the
\* names of the patients that were created
C36_GetPatientsListsPatients ==
    \A p \in Procs :
        ReturnedAlone(p, "GetPatients") => procs[p].res.val = DOMAIN patients

\* C37 (as the code refutes it): ValidHospital(name) returns true only when a
\* hospital named name has been created
C37_ValidOnlyForHospitals ==
    \A p \in Procs :
        (ReturnedAlone(p, "ValidHospital") /\ procs[p].res.ok /\ procs[p].res.val)
            => procs[p].args.h \in DOMAIN hospitals

=============================================================================
